---------------------------- MODULE Spec2Model ----------------------------
(* The keymashed packet-drop filters: the tc hooks of src/bpf/bpf.c,        *)
(* src/bpf/bpf2.c, src/screamd/bpf/bpf.c and src/screamd/bpf.c, the pinned  *)
(* array maps they declare, the loader that resolves a map at attach time   *)
(* and the userspace controller that writes the drop threshold.             *)
(*                                                                          *)
(* Machine words are WordBits wide (32 in the program); every conversion    *)
(* between uint32_t and int is computed modulo 2^WordBits.                  *)
EXTENDS Integers, FiniteSets

VARIABLES
    pinning,  \* object file -> pin type of the map it declares
    pin,      \* map name -> the register pinned under that name, or NoReg
    regs,     \* live register -> slot 0 of the array map: Unset or a value
    att,      \* hook -> the register its attachment resolved, or NoReg
    ctx,      \* execution context -> the invocation it runs, or its last result
    lastw,    \* history: map name -> value of the most recent write
    ver,      \* history: register -> writes taken, highest version read
    bench,    \* inputs and result of one stand-alone application of a hook
    ns,       \* whether the pin namespace (/sys/fs/bpf) is accessible
    outcome   \* hook -> how its last attachment ended

vars == <<pinning, pin, regs, att, ctx, lastw, ver, bench, ns, outcome>>

---------------------------------------------------------------------------
(* Machine integers *)

WordBits == 4

RECURSIVE TwoPow(_)
TwoPow(n) == IF n = 0 THEN 1 ELSE 2 * TwoPow(n - 1)

UINT32_MAX == TwoPow(WordBits) - 1

U32 == 0 .. UINT32_MAX

\* The value an out-of-range uint32_t takes when stored in an int.
ToInt32(u) == IF u >= TwoPow(WordBits - 1) THEN u - TwoPow(WordBits) ELSE u

\* The usual arithmetic conversion of an int operand compared with a uint32_t.
ToUint32(i) == i % TwoPow(WordBits)

NULL == -1

Unset == NULL

TC_ACT_OK == "TC_ACT_OK"

TC_ACT_SHOT == "TC_ACT_SHOT"

Verdicts == {TC_ACT_OK, TC_ACT_SHOT}

\* The spec's decision function, the reference the hooks are compared with.
decide(t, draw) == IF draw < t THEN TC_ACT_SHOT ELSE TC_ACT_OK

---------------------------------------------------------------------------
(* The hooks.  val is what map_lookup_elem returned: NULL, or the value     *)
(* *val reads; draw is what get_prandom_u32() returns when it is called.    *)
(* Each yields the returned verdict and the number of draws it consumed.    *)

Tenth == 10

\* A signed comparison: what `draw < prob_frac` would be with draw an int.
LtSigned(draw, prob_frac) == ToInt32(draw) < prob_frac

\* get_prandom_u32() < prob_frac with prob_frac an int: the int operand is
\* converted to unsigned and the comparison is unsigned.
LtDrawProb(draw, prob_frac) == draw < ToUint32(prob_frac)

\* scream_bpf of src/bpf/bpf.c comparing with <= instead of <.
bpf_scream_bpf_le(val, draw) ==
    IF val # NULL
    THEN [ret |-> IF draw <= val THEN TC_ACT_SHOT ELSE TC_ACT_OK, draws |-> 1]
    ELSE [ret |-> TC_ACT_OK, draws |-> 0]

\* scream_bpf of src/bpf/bpf.c
bpf_scream_bpf(val, draw) ==
    IF val # NULL
    THEN [ret |-> IF draw < val THEN TC_ACT_SHOT ELSE TC_ACT_OK, draws |-> 1]
    ELSE [ret |-> TC_ACT_OK, draws |-> 0]

\* scream_bpf of src/bpf/bpf2.c with the fallback of screamd/bpf/bpf.c.
bpf2_scream_bpf_fallbackTenth(val, draw) ==
    LET prob_frac == IF val # NULL THEN ToInt32(val) ELSE UINT32_MAX \div Tenth
    IN  [ret |-> IF LtDrawProb(draw, prob_frac) THEN TC_ACT_SHOT ELSE TC_ACT_OK,
         draws |-> 1]

\* scream_bpf of src/bpf/bpf2.c
bpf2_scream_bpf(val, draw) ==
    LET prob_frac == IF val # NULL THEN ToInt32(val) ELSE 0
    IN  [ret |-> IF LtDrawProb(draw, prob_frac) THEN TC_ACT_SHOT ELSE TC_ACT_OK,
         draws |-> 1]

\* scream_bpf of src/screamd/bpf/bpf.c with the fallback of bpf2.c.
screamd_scream_bpf_fallback0(val, draw) == bpf2_scream_bpf(val, draw)

\* scream_bpf of src/screamd/bpf/bpf.c
screamd_scream_bpf(val, draw) ==
    LET prob_frac == IF val # NULL THEN ToInt32(val) ELSE UINT32_MAX \div Tenth
    IN  [ret |-> IF LtDrawProb(draw, prob_frac) THEN TC_ACT_SHOT ELSE TC_ACT_OK,
         draws |-> 1]

\* emain of src/screamd/bpf.c
emain(draw) ==
    [ret |-> IF draw < UINT32_MAX \div Tenth THEN TC_ACT_SHOT ELSE TC_ACT_OK,
     draws |-> 1]

\* imain of src/screamd/bpf.c
imain(draw) ==
    [ret |-> IF draw < UINT32_MAX \div Tenth THEN TC_ACT_SHOT ELSE TC_ACT_OK,
     draws |-> 1]

StoreHooks == {"bpf", "bpf2", "screamd_bpf"}

MainHooks == {"emain", "imain"}

Hooks == StoreHooks \cup MainHooks

\* The entry point of hook h applied to a lookup result and a draw.
Run(h, val, draw) ==
    CASE h = "bpf"         -> bpf_scream_bpf(val, draw)
      [] h = "bpf2"        -> bpf2_scream_bpf(val, draw)
      [] h = "screamd_bpf" -> screamd_scream_bpf(val, draw)
      [] h = "emain"       -> emain(draw)
      [] h = "imain"       -> imain(draw)

---------------------------------------------------------------------------
(* Objects, maps and the loader *)

LIBBPF_PIN_NONE == "LIBBPF_PIN_NONE"

LIBBPF_PIN_BY_NAME == "LIBBPF_PIN_BY_NAME"

Objs == {"bpf/bpf.c", "bpf/bpf2.c", "screamd/bpf/bpf.c", "screamd/bpf.c"}

MapNames == {"map_keymash", "map_scream", "map_sh"}

\* The object file that holds hook h.
ObjOf(h) ==
    CASE h = "bpf"         -> "bpf/bpf.c"
      [] h = "bpf2"        -> "bpf/bpf2.c"
      [] h = "screamd_bpf" -> "screamd/bpf/bpf.c"
      [] h = "emain"       -> "screamd/bpf.c"
      [] h = "imain"       -> "screamd/bpf.c"

\* bpf.c left with the map name of bpf2.c, the file it was copied from.
MapNameNotRenamed(o) ==
    CASE o = "bpf/bpf.c"         -> "map_scream"
      [] o = "bpf/bpf2.c"        -> "map_scream"
      [] o = "screamd/bpf/bpf.c" -> "map_scream"
      [] o = "screamd/bpf.c"     -> "map_sh"

\* The name of the map declared by object o.
MapName(o) ==
    CASE o = "bpf/bpf.c"         -> "map_keymash"
      [] o = "bpf/bpf2.c"        -> "map_scream"
      [] o = "screamd/bpf/bpf.c" -> "map_scream"
      [] o = "screamd/bpf.c"     -> "map_sh"

MapOf(h) == MapName(ObjOf(h))

\* The pinning each map declaration states.
DeclaredPinning == [o \in Objs |-> LIBBPF_PIN_BY_NAME]

\* Objects whose declaration names LIBBPF_PIN_NONE as the alternative setting.
NonePinnable == {"bpf/bpf2.c", "screamd/bpf/bpf.c", "screamd/bpf.c"}

MaxInst == 1

RegIds == MapNames \X (0 .. MaxInst)

NoReg == <<"none", 0>>

Live == DOMAIN regs

FreeInst(n) == {i \in 0 .. MaxInst : <<n, i>> \notin Live}

Fresh(n) == <<n, CHOOSE i \in FreeInst(n) : \A j \in FreeInst(n) : i <= j>>

\* Whether the pin namespace can be used to resolve a map of pin type p.
Accessible(p) == p = LIBBPF_PIN_BY_NAME => ns

\* A loader that goes on without the pin namespace.
CanResolveUnpinned(n, p) ==
    \/ p = LIBBPF_PIN_BY_NAME /\ pin[n] # NoReg
    \/ FreeInst(n) # {}

\* Whether the loader can resolve map n under pin type p.
CanResolve(n, p) ==
    /\ Accessible(p)
    /\ \/ p = LIBBPF_PIN_BY_NAME /\ pin[n] # NoReg
       \/ FreeInst(n) # {}

\* A loader that creates a register at every attach, pinned or not.
ResolveFresh(n, p) ==
    LET r == IF FreeInst(n) # {} THEN Fresh(n) ELSE <<n, 0>>
    IN  [reg  |-> r,
         regs |-> [x \in Live \cup {r} |-> IF x = r THEN Unset ELSE regs[x]],
         pin  |-> IF p = LIBBPF_PIN_BY_NAME THEN [pin EXCEPT ![n] = r] ELSE pin]

\* A loader that reuses the pinned register but clears its value.
ResolveReset(n, p) ==
    LET r == IF p = LIBBPF_PIN_BY_NAME /\ pin[n] # NoReg THEN pin[n]
             ELSE IF FreeInst(n) # {} THEN Fresh(n) ELSE <<n, 0>>
    IN  [reg  |-> r,
         regs |-> [x \in Live \cup {r} |-> IF x = r THEN Unset ELSE regs[x]],
         pin  |-> IF p = LIBBPF_PIN_BY_NAME THEN [pin EXCEPT ![n] = r] ELSE pin]

\* A loader that ignores the pin type and always pins by name.
ResolveAlwaysPinned(n, p) ==
    IF pin[n] # NoReg
    THEN [reg |-> pin[n], regs |-> regs, pin |-> pin]
    ELSE LET r == IF FreeInst(n) # {} THEN Fresh(n) ELSE <<n, 0>>
         IN  [reg  |-> r,
              regs |-> [x \in Live \cup {r} |-> IF x = r THEN Unset ELSE regs[x]],
              pin  |-> [pin EXCEPT ![n] = r]]

\* The loader resolving map n under pin type p: the register the program is
\* bound to, and the registers and the pin namespace afterwards.
Resolve(n, p) ==
    IF p = LIBBPF_PIN_BY_NAME /\ pin[n] # NoReg
    THEN [reg |-> pin[n], regs |-> regs, pin |-> pin]
    ELSE LET r == Fresh(n)
         IN  [reg  |-> r,
              regs |-> [x \in Live \cup {r} |-> IF x = r THEN Unset ELSE regs[x]],
              pin  |-> IF p = LIBBPF_PIN_BY_NAME
                       THEN [pin EXCEPT ![n] = r] ELSE pin]

\* The registers some handle reaches: the pinned ones and the attached ones.
Handles == ({pin[n] : n \in MapNames} \cup {att[h] : h \in Hooks}) \ {NoReg}

---------------------------------------------------------------------------
(* Inputs *)

Thresholds == {0, UINT32_MAX \div Tenth, UINT32_MAX}

Draws == {0, UINT32_MAX \div Tenth, UINT32_MAX}

CPUs == {"cpu0"}

\* Contents of the packet a hook is handed.
Packets == {0, 1}

MaxWrites == 2

Idle ==
    [pc |-> "idle", hook |-> "-", map |-> NoReg, val |-> NoReg, old |-> NULL,
     wr |-> 0, over |-> 0, now |-> NULL, draw |-> NULL, seen |-> NULL,
     sver |-> 0, ret |-> "-", draws |-> 0, skb |-> 0]

NotAttached == "NotAttached"

Installed == "Installed"

ResolutionError == "ResolutionError"

NoBench == [val |-> NULL, draw |-> 0, hook |-> "-", ret |-> "-", draws |-> 0]

Init ==
    /\ pinning = DeclaredPinning
    /\ pin = [n \in MapNames |-> NoReg]
    /\ regs = [r \in {} |-> Unset]
    /\ att = [h \in Hooks |-> NoReg]
    /\ ctx = [c \in CPUs |-> Idle]
    /\ lastw = [n \in MapNames |-> Unset]
    /\ ver = [r \in {} |-> [w |-> 0, r |-> 0]]
    /\ bench = NoBench
    /\ ns = TRUE
    /\ outcome = [h \in Hooks |-> NotAttached]

---------------------------------------------------------------------------
(* Actions *)

\* tc filter add ... obj ObjOf(h) sec h: load the object, resolve its map,
\* install the program.
Attach(h) ==
    /\ CanResolve(MapOf(h), pinning[ObjOf(h)])
    /\ LET res == Resolve(MapOf(h), pinning[ObjOf(h)])
       IN  /\ att' = [att EXCEPT ![h] = res.reg]
           /\ regs' = res.regs
           /\ pin' = res.pin
    /\ outcome' = [outcome EXCEPT ![h] = Installed]
    /\ UNCHANGED <<pinning, ctx, lastw, ver, bench, ns>>

\* tc filter add for a hook not yet installed whose map cannot be pinned: the
\* load is refused, the attachment ends in ResolutionError.
AttachFails(h) ==
    /\ att[h] = NoReg
    /\ ~Accessible(pinning[ObjOf(h)])
    /\ outcome' = [outcome EXCEPT ![h] = ResolutionError]
    /\ UNCHANGED <<pinning, pin, regs, att, ctx, lastw, ver, bench, ns>>

\* The pin namespace becoming accessible or inaccessible (mounted or not,
\* permitted or not).
NsChange ==
    /\ ns' = ~ns
    /\ UNCHANGED <<pinning, pin, regs, att, ctx, lastw, ver, bench, outcome>>

\* History: the number of writes register r has taken, where they are counted.
Version(r) == IF r \in DOMAIN ver THEN ver[r].w ELSE 0

\* The controller replacing the value of register r by v.
Write(r, v) ==
    /\ r \in Handles
    /\ r \in DOMAIN ver => ver[r].w < MaxWrites
    /\ regs' = [regs EXCEPT ![r] = v]
    /\ lastw' = [lastw EXCEPT ![r[1]] = v]
    /\ ver' = IF r \in DOMAIN ver THEN [ver EXCEPT ![r].w = @ + 1] ELSE ver
    /\ ctx' = [c \in DOMAIN ctx |->
                 IF ctx[c].pc = "looked" /\ ctx[c].map = r
                 THEN [ctx[c] EXCEPT !.wr = IF @ = 0 THEN 1 ELSE 2]
                 ELSE ctx[c]]
    /\ UNCHANGED <<pinning, pin, att, bench, ns, outcome>>

\* A store hook's val = map_lookup_elem(&map, &key) on context c.
Lookup(c, h) ==
    /\ h \in StoreHooks
    /\ att[h] # NoReg
    /\ ctx[c].pc # "looked"
    /\ ctx' = [ctx EXCEPT ![c] =
                 [Idle EXCEPT !.pc = "looked", !.hook = h, !.map = att[h],
                     !.val = IF regs[att[h]] = Unset THEN NoReg ELSE att[h],
                     !.old = regs[att[h]], !.over = Version(att[h]),
                     !.skb = ctx[c].skb]]
    /\ UNCHANGED <<pinning, pin, regs, att, lastw, ver, bench, ns, outcome>>

\* The invocation cx returning: hook cx.hook run on the value v (of version
\* sv) and the draw d.
Returned(cx, v, sv, d) ==
    LET r == Run(cx.hook, v, d)
    IN  [Idle EXCEPT !.pc = "done", !.hook = cx.hook, !.map = cx.map,
            !.wr = cx.wr, !.now = regs[cx.map], !.draw = d, !.seen = v,
            !.sver = sv, !.ret = r.ret, !.draws = r.draws, !.skb = cx.skb]

\* History: a read of register m returned version sv.
NoteRead(m, sv) ==
    IF m \in DOMAIN ver
    THEN [ver EXCEPT ![m].r = IF sv > @ THEN sv ELSE @]
    ELSE ver

\* A store hook that stores the threshold it used back into the map.
FinishWriteBack(c) ==
    /\ ctx[c].pc = "looked"
    /\ \E d \in Draws :
         LET v == IF ctx[c].val = NoReg THEN 0 ELSE regs[ctx[c].val]
         IN  /\ ctx' = [ctx EXCEPT ![c] = Returned(ctx[c], v, 0, d)]
             /\ regs' = [regs EXCEPT ![ctx[c].map] = v]
    /\ UNCHANGED <<pinning, pin, att, lastw, ver, bench, ns, outcome>>

\* A store hook that reads *val in two halves, the upper one at the lookup.
FinishTornRead(c) ==
    /\ ctx[c].pc = "looked"
    /\ \E d \in Draws :
         LET half == TwoPow(WordBits \div 2)
             v == IF ctx[c].val = NoReg THEN NULL
                  ELSE (ctx[c].old \div half) * half + (regs[ctx[c].val] % half)
         IN  ctx' = [ctx EXCEPT ![c] = Returned(ctx[c], v, 0, d)]
    /\ UNCHANGED <<pinning, pin, regs, att, lastw, ver, bench, ns, outcome>>

\* A store hook that decides with the value its lookup found.
FinishStale(c) ==
    /\ ctx[c].pc = "looked"
    /\ \E d \in Draws :
         LET v == IF ctx[c].val = NoReg THEN NULL ELSE ctx[c].old
         IN  ctx' = [ctx EXCEPT ![c] = Returned(ctx[c], v, ctx[c].over, d)]
    /\ ver' = NoteRead(ctx[c].map, ctx[c].over)
    /\ UNCHANGED <<pinning, pin, regs, att, lastw, bench, ns, outcome>>

\* A store hook that returns TC_ACT_UNSPEC when its lookup misses.
FinishUnspecOnMiss(c) ==
    /\ ctx[c].pc = "looked"
    /\ LET v  == IF ctx[c].val = NoReg THEN NULL ELSE regs[ctx[c].val]
           sv == IF ctx[c].val = NoReg THEN ctx[c].over ELSE Version(ctx[c].val)
       IN  /\ \E d \in Draws :
                 ctx' = [ctx EXCEPT ![c] =
                           [Returned(ctx[c], v, sv, d) EXCEPT
                               !.ret = IF v = NULL THEN "TC_ACT_UNSPEC" ELSE @]]
           /\ ver' = NoteRead(ctx[c].map, sv)
    /\ UNCHANGED <<pinning, pin, regs, att, lastw, bench, ns, outcome>>

\* A store hook that lets every packet with contents 1 pass.
FinishByPacket(c) ==
    /\ ctx[c].pc = "looked"
    /\ LET v  == IF ctx[c].val = NoReg THEN NULL ELSE regs[ctx[c].val]
           sv == IF ctx[c].val = NoReg THEN ctx[c].over ELSE Version(ctx[c].val)
       IN  /\ \E d \in Draws :
                 ctx' = [ctx EXCEPT ![c] =
                           [Returned(ctx[c], v, sv, d) EXCEPT
                               !.ret = IF ctx[c].skb = 1 THEN TC_ACT_OK ELSE @]]
           /\ ver' = NoteRead(ctx[c].map, sv)
    /\ UNCHANGED <<pinning, pin, regs, att, lastw, bench, ns, outcome>>

\* The rest of a store hook: the one read of *val, the draw, the comparison
\* and the return.
Finish(c) ==
    /\ ctx[c].pc = "looked"
    /\ LET v  == IF ctx[c].val = NoReg THEN NULL ELSE regs[ctx[c].val]
           sv == IF ctx[c].val = NoReg THEN ctx[c].over ELSE Version(ctx[c].val)
       IN  /\ \E d \in Draws : ctx' = [ctx EXCEPT ![c] = Returned(ctx[c], v, sv, d)]
           /\ ver' = NoteRead(ctx[c].map, sv)
    /\ UNCHANGED <<pinning, pin, regs, att, lastw, bench, ns, outcome>>

\* The environment handing context c the next packet, of contents k.
Receive(c, k) ==
    /\ ctx[c].pc # "looked"
    /\ ctx' = [ctx EXCEPT ![c] = [Idle EXCEPT !.skb = k]]
    /\ UNCHANGED <<pinning, pin, regs, att, lastw, ver, bench, ns, outcome>>

\* One invocation of emain or imain on context c.
Invoke(c, h) ==
    /\ h \in MainHooks
    /\ att[h] # NoReg
    /\ ctx[c].pc # "looked"
    /\ \E d \in Draws :
         ctx' = [ctx EXCEPT ![c] =
                   Returned([Idle EXCEPT !.hook = h, !.map = att[h],
                                !.skb = ctx[c].skb], NULL, 0, d)]
    /\ UNCHANGED <<pinning, pin, regs, att, lastw, ver, bench, ns, outcome>>

Next ==
    \/ \E h \in Hooks : Attach(h)
    \/ \E r \in Handles, v \in Thresholds : Write(r, v)
    \/ \E c \in DOMAIN ctx, h \in Hooks : Lookup(c, h)
    \/ \E c \in DOMAIN ctx : Finish(c)
    \/ \E c \in DOMAIN ctx, h \in Hooks : Invoke(c, h)

Spec == Init /\ [][Next]_vars

\* The program with every hook invocation run to its return: a tc program is
\* not preempted by the controller and has no loop or wait.
SpecFair == Spec /\ \A c \in CPUs : WF_vars(Finish(c))

---------------------------------------------------------------------------
(* The loader and the controller with one object built with LIBBPF_PIN_NONE, the setting  *)
(* its map declaration names as the alternative.                            *)

InitPinNone ==
    /\ \E o \in NonePinnable :
         pinning = [DeclaredPinning EXCEPT ![o] = LIBBPF_PIN_NONE]
    /\ pin = [n \in MapNames |-> NoReg]
    /\ regs = [r \in {} |-> Unset]
    /\ att = [h \in Hooks |-> NoReg]
    /\ ctx = [c \in CPUs |-> Idle]
    /\ lastw = [n \in MapNames |-> Unset]
    /\ ver = [r \in {} |-> [w |-> 0, r |-> 0]]
    /\ bench = NoBench
    /\ ns = TRUE
    /\ outcome = [h \in Hooks |-> NotAttached]

\* The loader and the controller alone: what resolve creates and what a
\* write reaches.
NextPinNone ==
    \/ \E h \in Hooks : Attach(h)
    \/ \E r \in Handles, v \in Thresholds : Write(r, v)

SpecPinNone == InitPinNone /\ [][NextPinNone]_vars

---------------------------------------------------------------------------
(* Attachment and the hooks while the pin namespace comes and goes.         *)

InitResolve ==
    /\ pinning = DeclaredPinning
    /\ pin = [n \in MapNames |-> NoReg]
    /\ regs = [r \in {} |-> Unset]
    /\ att = [h \in Hooks |-> NoReg]
    /\ ctx = [c \in CPUs |-> Idle]
    /\ lastw = [n \in MapNames |-> Unset]
    /\ ver = [r \in {} |-> [w |-> 0, r |-> 0]]
    /\ bench = NoBench
    /\ ns \in BOOLEAN
    /\ outcome = [h \in Hooks |-> NotAttached]

NextResolve ==
    \/ \E h \in Hooks : Attach(h)
    \/ \E h \in Hooks : AttachFails(h)
    \/ NsChange
    \/ \E c \in DOMAIN ctx, h \in Hooks : Lookup(c, h)
    \/ \E c \in DOMAIN ctx : Finish(c)
    \/ \E c \in DOMAIN ctx, h \in Hooks : Invoke(c, h)

SpecResolve == InitResolve /\ [][NextResolve]_vars

---------------------------------------------------------------------------
(* Every hook installed, the registers holding any of the sample values or  *)
(* none, and two execution contexts running the hooks on packets of any     *)
(* contents.                                                                *)

InitPair ==
    /\ pinning = DeclaredPinning
    /\ pin = [n \in MapNames |-> <<n, 0>>]
    /\ regs \in [{<<n, 0>> : n \in MapNames} -> Thresholds \cup {Unset}]
    /\ att = [h \in Hooks |-> <<MapOf(h), 0>>]
    /\ ctx = [c \in {"cpu0", "cpu1"} |-> Idle]
    /\ lastw = [n \in MapNames |-> regs[<<n, 0>>]]
    /\ ver = [r \in {} |-> [w |-> 0, r |-> 0]]
    /\ bench = NoBench
    /\ ns = TRUE
    /\ outcome = [h \in Hooks |-> Installed]

NextPair ==
    \/ \E c \in DOMAIN ctx, k \in Packets : Receive(c, k)
    \/ \E c \in DOMAIN ctx, h \in Hooks : Lookup(c, h)
    \/ \E c \in DOMAIN ctx : Finish(c)
    \/ \E c \in DOMAIN ctx, h \in Hooks : Invoke(c, h)

SpecPair == InitPair /\ [][NextPair]_vars

---------------------------------------------------------------------------
(* Two execution contexts running the classifier of bpf.c against the       *)
(* pinned map_keymash while the controller writes it; the writes and the    *)
(* versions the reads return are counted.                                   *)

InitVis ==
    /\ pinning = DeclaredPinning
    /\ pin = [n \in MapNames |-> IF n = "map_keymash" THEN <<n, 0>> ELSE NoReg]
    /\ regs = [r \in {<<"map_keymash", 0>>} |-> Unset]
    /\ att = [h \in Hooks |-> IF h = "bpf" THEN <<"map_keymash", 0>> ELSE NoReg]
    /\ ctx = [c \in {"cpu0", "cpu1"} |-> Idle]
    /\ lastw = [n \in MapNames |-> Unset]
    /\ ver = [r \in {<<"map_keymash", 0>>} |-> [w |-> 0, r |-> 0]]
    /\ bench = NoBench
    /\ ns = TRUE
    /\ outcome = [h \in Hooks |-> IF h = "bpf" THEN Installed ELSE NotAttached]

NextVis ==
    \/ \E r \in Handles, v \in Thresholds : Write(r, v)
    \/ \E c \in DOMAIN ctx, h \in StoreHooks : Lookup(c, h)
    \/ \E c \in DOMAIN ctx : Finish(c)

SpecVis == InitVis /\ [][NextVis]_vars

---------------------------------------------------------------------------
(* The hooks as functions: every lookup result and every draw of the word   *)
(* range, each hook applied to them.                                        *)

InitDecide ==
    /\ pinning = DeclaredPinning
    /\ pin = [n \in MapNames |-> NoReg]
    /\ regs = [r \in {} |-> Unset]
    /\ att = [h \in Hooks |-> NoReg]
    /\ ctx = [c \in CPUs |-> Idle]
    /\ lastw = [n \in MapNames |-> Unset]
    /\ ver = [r \in {} |-> [w |-> 0, r |-> 0]]
    /\ \E v \in U32 \cup {NULL}, d \in U32 :
         bench = [val |-> v, draw |-> d, hook |-> "-", ret |-> "-", draws |-> 0]
    /\ ns = TRUE
    /\ outcome = [h \in Hooks |-> NotAttached]

\* Hook h applied to the lookup result and the draw on the bench.
Apply(h) ==
    /\ LET r == Run(h, bench.val, bench.draw)
       IN  bench' = [bench EXCEPT !.hook = h, !.ret = r.ret, !.draws = r.draws]
    /\ UNCHANGED <<pinning, pin, regs, att, ctx, lastw, ver, ns, outcome>>

NextDecide == \E h \in Hooks : Apply(h)

SpecDecide == InitDecide /\ [][NextDecide]_vars

---------------------------------------------------------------------------
(* Claims *)

\* C1: a store hook whose lookup returned a value t returns DROP exactly when
\* draw < t as unsigned words, for every t and draw of the word range, the
\* thresholds with the top bit set (carried in an int by bpf2.c and
\* screamd/bpf/bpf.c) included.
C1_DropIffDrawBelowThreshold ==
    (bench.hook \in StoreHooks /\ bench.val # NULL)
        => (bench.ret = TC_ACT_SHOT <=> bench.draw < bench.val)

\* C1 witness: screamd/bpf/bpf.c drops on a threshold with the top bit set.
C1_Witness ==
    /\ bench.hook = "screamd_bpf"
    /\ bench.val >= TwoPow(WordBits - 1)
    /\ bench.draw < bench.val
    /\ bench.ret = TC_ACT_SHOT

\* C3: on a lookup miss bpf.c and bpf2.c return PASS for every draw, and
\* screamd/bpf/bpf.c returns DROP exactly when draw < UINT32_MAX / 10; the
\* result is one of the two verdicts.
C3_MissUsesFallback ==
    (bench.hook \in StoreHooks /\ bench.val = NULL)
        => /\ bench.ret \in Verdicts
           /\ bench.hook \in {"bpf", "bpf2"} => bench.ret = TC_ACT_OK
           /\ bench.hook = "screamd_bpf"
                => (bench.ret = TC_ACT_SHOT <=> bench.draw < UINT32_MAX \div 10)

\* C3 witness: screamd/bpf/bpf.c drops on a miss.
C3_Witness ==
    /\ bench.hook = "screamd_bpf"
    /\ bench.val = NULL
    /\ bench.ret = TC_ACT_SHOT


\* C2: once a write of v has completed, every later invocation of any hook
\* bound to that register returns DROP exactly when its draw < v; no hook
\* decides with a constant that ignores the register.
C2_EveryHookDecidesWithStoredValue ==
    \A c \in DOMAIN ctx :
        (ctx[c].pc = "done" /\ ctx[c].wr = 0 /\ ctx[c].now # Unset)
            => (ctx[c].ret = TC_ACT_SHOT <=> ctx[c].draw < ctx[c].now)

C5_NamesIsolated ==
    [][/\ lastw'["map_keymash"] # lastw["map_keymash"] =>
             /\ \A h \in {"bpf2", "screamd_bpf", "emain", "imain"} :
                   att[h] # NoReg => regs'[att[h]] = regs[att[h]]
             /\ \A c \in DOMAIN ctx :
                   ctx[c].hook # "bpf" => ctx'[c] = ctx[c]
       /\ (\/ lastw'["map_scream"] # lastw["map_scream"]
           \/ lastw'["map_sh"] # lastw["map_sh"]) =>
             /\ att["bpf"] # NoReg => regs'[att["bpf"]] = regs[att["bpf"]]
             /\ \A c \in DOMAIN ctx :
                   ctx[c].hook = "bpf" => ctx'[c] = ctx[c]]_vars

\* C5 witness: map_keymash holds a written value while a map_scream hook,
\* attached, has read its own register as unset.
C5_Witness ==
    /\ lastw["map_keymash"] = UINT32_MAX
    /\ lastw["map_scream"] = Unset
    /\ \E c \in DOMAIN ctx :
          /\ ctx[c].pc = "done"
          /\ ctx[c].hook = "bpf2"
          /\ ctx[c].seen = NULL

\* C6: no step of a hook invocation changes any register, creates one, or
\* changes the pin namespace.
C6_HooksNeverWrite ==
    [][(\/ \E c \in DOMAIN ctx : Finish(c)
        \/ \E c \in DOMAIN ctx, h \in StoreHooks : Lookup(c, h)
        \/ \E c \in DOMAIN ctx, h \in MainHooks : Invoke(c, h))
          => (regs' = regs /\ pin' = pin /\ att' = att)]_vars

\* C6 witness: a store hook has returned having read a set register.
C6_Witness ==
    \E c \in DOMAIN ctx :
        /\ ctx[c].pc = "done"
        /\ ctx[c].hook \in StoreHooks
        /\ ctx[c].seen # NULL
        /\ regs[ctx[c].map] = ctx[c].seen

\* C7: a store hook whose lookup found old and that runs while at most one
\* write (to new) completes is never blocked, and what it reads is old or
\* new, its verdict decide(old, draw) or decide(new, draw).
C7_OldOrNew ==
    /\ [](\A c \in DOMAIN ctx : ctx[c].pc = "looked" => ENABLED Finish(c))
    /\ [][\A c \in DOMAIN ctx :
            (ctx[c].pc = "looked" /\ ctx'[c].pc = "done"
               /\ ctx[c].old # Unset /\ ctx[c].wr <= 1)
              => /\ ctx'[c].seen \in {ctx[c].old, regs[ctx[c].map]}
                 /\ ctx'[c].ret \in {decide(ctx[c].old, ctx'[c].draw),
                                     decide(regs[ctx[c].map], ctx'[c].draw)}]_vars

\* C7 witness: a store hook returned after one write replaced the value its
\* lookup found.
C7_Witness ==
    \E c \in DOMAIN ctx :
        /\ ctx[c].pc = "done"
        /\ ctx[c].hook \in StoreHooks
        /\ ctx[c].wr = 1
        /\ ctx[c].seen # NULL

\* C9: under pinning by name there is at most one live register per map
\* name, and an attach that finds the name pinned binds the hook to that
\* register, creating none and leaving every value as it was.
C9_ResolveIdempotent ==
    /\ [](\A n \in MapNames : Cardinality({r \in Live : r[1] = n}) <= 1)
    /\ [][\A h \in Hooks :
            (pin[MapOf(h)] # NoReg /\ Attach(h))
              => /\ att'[h] = pin[MapOf(h)]
                 /\ regs' = regs
                 /\ pin' = pin]_vars

\* C9 witness: the second map_scream classifier is attached to the register
\* the first one pinned, which holds a written value.
C9_Witness ==
    /\ att["bpf2"] # NoReg
    /\ att["bpf2"] = att["screamd_bpf"]
    /\ att["bpf2"] = pin["map_scream"]
    /\ regs[att["bpf2"]] # Unset


\* C10: an attach of an object built with LIBBPF_PIN_NONE binds the hook to
\* a register created by that attach, unset whatever was written before and
\* leaving every other register as it was; no other hook and no pin holds
\* it, and a write that changes it changes no register another hook holds.
C10_PinNoneFresh ==
    /\ [](\A h1 \in Hooks :
            (pinning[ObjOf(h1)] = LIBBPF_PIN_NONE /\ att[h1] # NoReg)
              => /\ \A h2 \in Hooks \ {h1} : att[h2] # att[h1]
                 /\ \A n \in MapNames : pin[n] # att[h1])
    /\ [][\A h \in Hooks :
            (pinning[ObjOf(h)] = LIBBPF_PIN_NONE /\ Attach(h))
              => /\ att'[h] \notin Live
                 /\ regs'[att'[h]] = Unset
                 /\ \A r \in Live : regs'[r] = regs[r]]_vars
    /\ [][\A h1 \in Hooks :
            (/\ pinning[ObjOf(h1)] = LIBBPF_PIN_NONE
             /\ att[h1] # NoReg /\ att' = att
             /\ regs'[att[h1]] # regs[att[h1]])
              => \A h2 \in Hooks \ {h1} :
                    att[h2] # NoReg => regs'[att[h2]] = regs[att[h2]]]_vars

\* C10 witness: with screamd/bpf.c built with LIBBPF_PIN_NONE, emain's
\* register holds a written value, map_keymash was written, and imain's
\* register is unset.
C10_Witness ==
    /\ pinning["screamd/bpf.c"] = LIBBPF_PIN_NONE
    /\ att["emain"] # NoReg
    /\ att["imain"] # NoReg
    /\ regs[att["emain"]] = UINT32_MAX
    /\ lastw["map_keymash"] = UINT32_MAX
    /\ regs[att["imain"]] = Unset


\* C8: with one writer and two readers, a read of the value returns the
\* latest completed write, which is never older than a write some earlier
\* read returned, and a lookup misses only while no write has completed.
C8_VisibilityMonotonic ==
    /\ [][\A c \in DOMAIN ctx :
            (ctx[c].pc = "looked" /\ ctx'[c].pc = "done" /\ ctx[c].val # NoReg)
              => /\ ctx'[c].sver >= ver[ctx[c].map].r
                 /\ ctx'[c].sver = ver[ctx[c].map].w
                 /\ ctx'[c].seen = regs[ctx[c].map]]_vars
    /\ [][\A c \in DOMAIN ctx :
            (ctx[c].pc # "looked" /\ ctx'[c].pc = "looked"
               /\ ctx'[c].val = NoReg)
              => /\ ver[ctx'[c].map].w = 0
                 /\ ver[ctx'[c].map].r = 0]_vars

\* C8 witness: one context has returned the first write and the other the
\* second, a different value.
C8_Witness ==
    \E c1 \in DOMAIN ctx, c2 \in DOMAIN ctx :
        /\ c1 # c2
        /\ ctx[c1].pc = "done" /\ ctx[c1].sver = 1
        /\ ctx[c2].pc = "done" /\ ctx[c2].sver = 2
        /\ ctx[c1].seen # ctx[c2].seen


\* C11: an attachment made while the pin namespace is inaccessible ends in
\* ResolutionError and installs nothing (no hook bound, no register created,
\* nothing pinned), and a hook whose attachment ended in ResolutionError has
\* no invocation under way and has returned no verdict.
C11_ResolutionErrorInstallsNothing ==
    /\ [](\A h \in Hooks :
            outcome[h] = ResolutionError
              => /\ att[h] = NoReg
                 /\ \A c \in DOMAIN ctx :
                       ctx[c].pc \in {"looked", "done"} => ctx[c].hook # h)
    /\ [][\A h \in Hooks :
            (/\ ~Accessible(pinning[ObjOf(h)])
             /\ (att'[h] # att[h] \/ outcome'[h] # outcome[h]))
              => /\ outcome'[h] = ResolutionError
                 /\ att' = att /\ regs' = regs /\ pin' = pin]_vars

\* C11 witness: with the namespace inaccessible the attachment of the
\* classifier of screamd/bpf/bpf.c (fallback UINT32_MAX / 10) has failed,
\* while that of bpf2.c, made earlier, runs and has returned a verdict.
C11_Witness ==
    /\ ~ns
    /\ outcome["screamd_bpf"] = ResolutionError
    /\ outcome["bpf2"] = Installed
    /\ \E c \in DOMAIN ctx : ctx[c].pc = "done" /\ ctx[c].hook = "bpf2"

\* The draws of the word range on which hook h, its lookup returning val,
\* returns DROP.
DropDraws(h, val) == {d \in U32 : Run(h, val, d).ret = TC_ACT_SHOT}

\* C12: for every threshold t of the word range, a store hook whose lookup
\* returned t returns DROP on exactly t of the 2^WordBits draws, the draw it
\* was applied to being one of them exactly when it returned DROP.
C12_DropCountIsThreshold ==
    (bench.hook \in StoreHooks /\ bench.val # NULL)
        => /\ Cardinality(DropDraws(bench.hook, bench.val)) = bench.val
           /\ bench.draw \in DropDraws(bench.hook, bench.val)
                <=> bench.ret = TC_ACT_SHOT

\* C12 witness: at the largest threshold bpf.c passes the one draw that is
\* not below it.
C12_Witness ==
    /\ bench.hook = "bpf"
    /\ bench.val = UINT32_MAX
    /\ bench.draw = UINT32_MAX
    /\ bench.ret = TC_ACT_OK
    /\ Cardinality(DropDraws("bpf", UINT32_MAX)) = UINT32_MAX

\* C13: every hook invocation that has returned consumed exactly one draw
\* of the random source, whether its lookup hit or missed.
C13_OneDrawPerInvocation ==
    \A c \in DOMAIN ctx : ctx[c].pc = "done" => ctx[c].draws = 1

C15_AlwaysOneVerdict ==
    /\ [](\A c \in CPUs :
            /\ ctx[c].pc \in {"idle", "looked", "done"}
            /\ ctx[c].pc = "done" => ctx[c].ret \in Verdicts)
    /\ \A c \in CPUs :
          (ctx[c].pc = "looked")
             ~> (ctx[c].pc = "done" /\ ctx[c].ret \in Verdicts)

\* C15 witness: a store hook whose lookup missed has returned a verdict
\* after two writes to its register.
C15_Witness ==
    \E c \in CPUs :
        /\ ctx[c].pc = "done"
        /\ ctx[c].hook \in StoreHooks
        /\ ctx[c].seen = NULL
        /\ ctx[c].wr = 2
        /\ ctx[c].ret \in Verdicts

\* C16: the classifiers of bpf2.c and screamd/bpf/bpf.c declare the same
\* pinned name; given the same lookup result and the same draw they return
\* the same verdict when the lookup returned a value, whatever the value,
\* and on a miss they differ exactly when draw < UINT32_MAX / 10, bpf2.c
\* passing and screamd/bpf/bpf.c dropping.
C16_SameUnlessUnset ==
    LET a == IF bench.hook = "bpf2" THEN bench.ret
             ELSE bpf2_scream_bpf(bench.val, bench.draw).ret
        b == IF bench.hook = "screamd_bpf" THEN bench.ret
             ELSE screamd_scream_bpf(bench.val, bench.draw).ret
    IN  bench.hook \in {"bpf2", "screamd_bpf"}
          => /\ MapOf("bpf2") = MapOf("screamd_bpf")
             /\ bench.val # NULL => a = b
             /\ bench.val = NULL
                  => /\ a # b <=> bench.draw < UINT32_MAX \div Tenth
                     /\ a # b => (a = TC_ACT_OK /\ b = TC_ACT_SHOT)

\* C16 witness: on a miss and the draw 0 bpf2.c has passed the packet that
\* screamd/bpf/bpf.c drops.
C16_Witness ==
    /\ bench.hook = "bpf2"
    /\ bench.val = NULL
    /\ bench.draw = 0
    /\ bench.ret = TC_ACT_OK
    /\ screamd_scream_bpf(NULL, 0).ret = TC_ACT_SHOT

===========================================================================
